---- MODULE Spec2Model ----
(***************************************************************************)
(* DK NBA Best Ball Draft Assistant (src/app_web_fixed.py, the revision of  *)
(* src/app_web.py): the metric pipeline process_data, the live score, the   *)
(* recommendation lists and the draft state kept in st.session_state.       *)
(*                                                                          *)
(* Numbers.  FinalAdjGPP, ADP, TeamRank and the game counts are integers.   *)
(* Multipliers, ShutdownRisk and finals_emphasis are held in hundredths     *)
(* (1.0 is 100, 1.04 is 104, 0.5 is 50), so LiveScore is in hundredths too.  *)
(* z-scores are fixed-point numbers with ZScale units per 1.0, truncated     *)
(* toward zero; NaN is the missing cell.                                    *)
(*                                                                          *)
(* Cells.  A cell of an uploaded table is NA (missing) or <<v>>.  A row's    *)
(* Str field names the columns whose cell pd.read_csv left as text (a str   *)
(* in a column of dtype object); what such a cell holds is never computed   *)
(* with.                                                                    *)
(***************************************************************************)
EXTENDS Integers, Sequences, FiniteSets, TLC

VARIABLES
    uploaded,          \* the table pd.read_csv returned for the stored catalog, or NoFile
    df,                \* st.session_state.df: NoDF or the sequence of processed rows
    data_loaded,       \* st.session_state.data_loaded
    drafted_players,   \* st.session_state.drafted_players (a set of IDs)
    my_roster,         \* st.session_state.my_roster (a list of IDs, pick order)
    finals_emphasis,   \* st.session_state.finals_emphasis, in hundredths
    view_mode,         \* the "Show players:" radio
    position_filter,   \* the Position multiselect
    team_filter,       \* the Team multiselect
    rank_tier,         \* the Team Rank Tier selectbox
    finals_games_filter, \* the Finals Games multiselect
    search_term,       \* the Search Player Name text input
    last               \* the last draft-state handler that ran, its id and the notice it emitted

vars == <<uploaded, df, data_loaded, drafted_players, my_roster, finals_emphasis,
          view_mode, position_filter, team_filter, rank_tier, finals_games_filter,
          search_term, last>>

widgets == <<view_mode, position_filter, team_filter, rank_tier, finals_games_filter,
             search_term>>

----------------------------------------------------------------------------
(* Bounds of the model *)

MaxRows == 3
MaxMetricRows == 3
MaxActiveControls == 1
MaxAdmissionRows == 3
MaxRosterRows == 5
ZScale == 100

----------------------------------------------------------------------------
(* Cells and small helpers *)

NA == <<>>
NaN == <<>>
\* st.session_state.df = None (a stored catalog is never empty: lines 294-296)
NoDF == <<>>
\* no table has been read
NoFile == [hasID |-> FALSE, hasADP |-> FALSE, rows |-> <<>>]

isna(c) == c = NA

fillna(c, d) == IF isna(c) THEN <<d>> ELSE c

Range(s) == {s[i] : i \in 1..Len(s)}

SetMax(S) == CHOOSE m \in S : \A x \in S : x <= m

RECURSIVE SeqSum(_)
SeqSum(s) == IF s = <<>> THEN 0 ELSE Head(s) + SeqSum(Tail(s))

Reverse(s) == [i \in 1..Len(s) |-> s[Len(s) + 1 - i]]

Column(rows, col) == [i \in 1..Len(rows) |-> rows[i][col]]

\* an injective sequence has no repeated element
NoDuplicates(s) == \A i, j \in 1..Len(s) : i # j => s[i] # s[j]

----------------------------------------------------------------------------
(* process_data *)

required_cols ==
    [ShutdownRisk |-> 50, R2Mult |-> 100, R3Mult |-> 100, FinalsMult |-> 100,
     TeamRank |-> 15, R2Games |-> 3, R3Games |-> 3, FinalsGames |-> 3,
     FinalAdjGPP |-> 0, ADP |-> 999]

critical_cols == {"Name", "Position", "Team", "FinalAdjGPP"}

\* lines 56-58 without the test of line 57: the IDs are always assigned anew
EnsureID_renumber(file) ==
    [i \in 1..Len(file.rows) |-> [file.rows[i] EXCEPT !.ID = <<i - 1>>]]

\* lines 56-58: df['ID'] = range(len(df)) when the table has no ID column
EnsureID(file) ==
    IF file.hasID THEN file.rows
    ELSE [i \in 1..Len(file.rows) |-> [file.rows[i] EXCEPT !.ID = <<i - 1>>]]

\* the value lines 62-65 put into the missing ADP cells
AdpFillValue(rows) ==
    LET observed == {rows[i].ADP[1] : i \in {j \in 1..Len(rows) : ~isna(rows[j].ADP)}}
        max_adp  == IF observed = {} THEN 999 ELSE SetMax(observed)
    IN  max_adp + 100

\* lines 61-65: only when the table has an ADP column
FillADP(hasADP, rows) ==
    IF hasADP
    THEN [i \in 1..Len(rows) |->
            [rows[i] EXCEPT !.ADP = fillna(rows[i].ADP, AdpFillValue(rows))]]
    ELSE rows

\* lines 81-86: an absent column is created with the default, a present one has
\* its missing cells filled (an absent column is a column of missing cells here)
FillDefaults(rows) ==
    [i \in 1..Len(rows) |->
        [col \in DOMAIN rows[i] |->
            IF col \in DOMAIN required_cols
            THEN fillna(rows[i][col], required_cols[col])
            ELSE rows[i][col]]]

\* line 90: df.dropna(subset=critical_cols)
DropNA(rows) ==
    SelectSeq(rows, LAMBDA r : \A col \in critical_cols : ~isna(r[col]))

\* line 93 with >= for >
PositiveGPP_nonneg(rows) == SelectSeq(rows, LAMBDA r : r.FinalAdjGPP[1] >= 0)

\* line 93: df[df['FinalAdjGPP'] > 0]
PositiveGPP(rows) == SelectSeq(rows, LAMBDA r : r.FinalAdjGPP[1] > 0)

\* the cleaned table, cells unwrapped (no cell of a kept row is missing)
CleanRows(file) ==
    LET kept == PositiveGPP(DropNA(FillDefaults(FillADP(file.hasADP, EnsureID(file)))))
    IN  [i \in 1..Len(kept) |->
            [col \in DOMAIN kept[i] |->
                IF col = "Str" THEN kept[i].Str ELSE kept[i][col][1]]]

\* Series.sort_values as rank() uses it: insertion of each value into a sorted list
RECURSIVE InsertAsc(_, _)
InsertAsc(s, x) ==
    IF s = <<>> THEN <<x>>
    ELSE IF x < Head(s) THEN <<x>> \o s
    ELSE <<Head(s)>> \o InsertAsc(Tail(s), x)

RECURSIVE SortAsc(_)
SortAsc(s) == IF s = <<>> THEN <<>> ELSE InsertAsc(SortAsc(Tail(s)), Head(s))

\* the first (1-based) position of x in s
FirstIndex(s, x) == CHOOSE i \in 1..Len(s) : s[i] = x /\ \A j \in 1..(i - 1) : s[j] # x

\* the last (1-based) position of x in s
LastIndex(s, x) == CHOOSE i \in 1..Len(s) : s[i] = x /\ \A j \in (i + 1)..Len(s) : s[j] # x

\* rank(method='max'): the position of the last member of the tie group
RankMax(vals, ascending) ==
    LET sorted == IF ascending THEN SortAsc(vals) ELSE Reverse(SortAsc(vals))
    IN  [i \in 1..Len(vals) |-> LastIndex(sorted, vals[i])]

\* Series.rank(ascending=..., method='min').astype(int): a value's rank is the
\* position of the first member of its tie group in the sorted order
RankMin(vals, ascending) ==
    LET sorted == IF ascending THEN SortAsc(vals) ELSE Reverse(SortAsc(vals))
    IN  [i \in 1..Len(vals) |-> FirstIndex(sorted, vals[i])]

\* floor of the square root, by bisection on lo..hi
RECURSIVE ISqrtIn(_, _, _)
ISqrtIn(y, lo, hi) ==
    IF lo >= hi THEN lo
    ELSE LET mid == (lo + hi + 1) \div 2
         IN  IF mid * mid <= y THEN ISqrtIn(y, mid, hi) ELSE ISqrtIn(y, lo, mid - 1)

ISqrt(y) == ISqrtIn(y, 0, 46340)

\* scipy.stats.zscore(a), ddof=0: (a - mean) / std.  With n values of sum S,
\* (x - S/n) / std = (n*x - S) / sqrt(n*sum(x^2) - S^2); a zero deviation
\* divides 0 by 0 and gives NaN for every value (no exception is raised)
zscore(vals) ==
    LET n  == Len(vals)
        S  == SeqSum(vals)
        Q  == SeqSum([i \in 1..n |-> vals[i] * vals[i]])
        D  == n * Q - S * S
        z(x) == LET num == (n * x - S) * ZScale
                    mag == ISqrt((num * num) \div D)
                IN  IF num < 0 THEN -mag ELSE mag
    IN  [i \in 1..n |-> IF D = 0 THEN NaN ELSE <<z(vals[i])>>]

\* float subtraction: NaN if either side is NaN
FSub(a, b) == IF a = NaN \/ b = NaN THEN NaN ELSE <<a[1] - b[1]>>

\* float comparison a >= k: False on NaN
FGe(a, k) == a # NaN /\ a[1] >= k

\* lines 96-111: the derived columns
Derive(rows) ==
    LET n         == Len(rows)
        gpp       == Column(rows, "FinalAdjGPP")
        adp       == Column(rows, "ADP")
        finalRank == RankMin(gpp, FALSE)
        adpRank   == RankMin(adp, TRUE)
        zFinal    == zscore(gpp)
        zADP      == zscore([i \in 1..n |-> -adp[i]])
    IN  [i \in 1..n |->
            LET valueScore == adpRank[i] - finalRank[i]
                valueZ     == FSub(zFinal[i], zADP[i])
            IN  [ID |-> rows[i].ID, Name |-> rows[i].Name, Position |-> rows[i].Position,
                 Team |-> rows[i].Team, ADP |-> rows[i].ADP,
                 FinalAdjGPP |-> rows[i].FinalAdjGPP, TeamRank |-> rows[i].TeamRank,
                 R2Games |-> rows[i].R2Games, R3Games |-> rows[i].R3Games,
                 FinalsGames |-> rows[i].FinalsGames, R2Mult |-> rows[i].R2Mult,
                 R3Mult |-> rows[i].R3Mult, FinalsMult |-> rows[i].FinalsMult,
                 ShutdownRisk |-> rows[i].ShutdownRisk, Str |-> rows[i].Str,
                 FinalAdjGPP_Rank |-> finalRank[i], ADP_Rank |-> adpRank[i],
                 ValueScore |-> valueScore,
                 zFinal |-> zFinal[i], zADP |-> zADP[i], ValueZ |-> valueZ,
                 ValueAlert |-> (valueScore >= 12 \/ FGe(valueZ, (75 * ZScale) \div 100)),
                 LiveScore |-> NA]]

process_data(file) == Derive(CleanRows(file))

\* lines 115-118 writing the product back into FinalAdjGPP as well
calculate_live_score_in_place(rows, emphasis) ==
    [i \in 1..Len(rows) |->
        [rows[i] EXCEPT !.LiveScore = <<rows[i].FinalAdjGPP * emphasis>>,
                        !.FinalAdjGPP = (rows[i].FinalAdjGPP * emphasis) \div 100]]

\* lines 115-118: df['LiveScore'] = df['FinalAdjGPP'] * emphasis
calculate_live_score(rows, emphasis) ==
    [i \in 1..Len(rows) |-> [rows[i] EXCEPT !.LiveScore = <<rows[i].FinalAdjGPP * emphasis>>]]

----------------------------------------------------------------------------
(* The uploaded tables *)

\* Text the search box looks into is a sequence of characters.
Al == <<"A", "l">>
Bo == <<"B", "o">>
Cy == <<"C", "y">>
Di == <<"D", "i">>
Ed == <<"E", "d">>

RawRow(id, name, pos, team, adp, gpp, teamRank, finalsGames, finalsMult, risk) ==
    [ID |-> id, Name |-> name, Position |-> pos, Team |-> team, ADP |-> adp,
     FinalAdjGPP |-> gpp, TeamRank |-> teamRank, R2Games |-> NA, R3Games |-> NA,
     FinalsGames |-> finalsGames, R2Mult |-> NA, R3Mult |-> NA,
     FinalsMult |-> finalsMult, ShutdownRisk |-> risk, Str |-> {}]

\* The players the draft sessions are run on: two Boston players (a stack), one
\* Laker, and one row the admission rules reject (no projection).
Pool ==
    <<RawRow(NA, <<Al>>, <<"PG">>, <<"BOS">>, <<5>>, <<100>>, <<3>>,  <<4>>, <<105>>, <<20>>),
      RawRow(NA, <<Bo>>, <<"C">>,  <<"BOS">>, <<1>>, <<90>>,  <<3>>,  <<4>>, <<105>>, NA),
      RawRow(NA, <<Cy>>, <<"PG">>, <<"LAL">>, NA,    <<90>>,  <<15>>, NA,    NA,      <<50>>),
      RawRow(NA, <<Al>>, <<"PG">>, <<"BOS">>, <<2>>, NA,      <<3>>,  <<4>>, <<105>>, NA)>>

\* the sequences of length 1..n over S
SeqsUpTo(S, n) == UNION {[1..k -> S] : k \in 1..n}

\* the strictly increasing sequences of up to n indices of Pool
PoolPicks(n) ==
    {s \in SeqsUpTo(1..Len(Pool), n) : \A i \in 1..(Len(s) - 1) : s[i] < s[i + 1]}

\* CSV files of the draft sessions: up to MaxRows pool players in pool order,
\* without an ID column
DraftFiles ==
    {[hasID |-> FALSE, hasADP |-> TRUE, rows |-> [i \in 1..Len(ix) |-> Pool[ix[i]]]] :
        ix \in PoolPicks(MaxRows)}

\* CSV files the metric pipeline is checked on: every combination of projection
\* and ADP cells, with and without an ADP column
GppCells == {NA, <<0>>, <<90>>, <<100>>}
AdpCells == {NA, <<1>>, <<2>>, <<5>>}

MetricRow(gpp, adp) ==
    RawRow(NA, <<Al>>, <<"PG">>, <<"BOS">>, adp, gpp, NA, NA, NA, NA)

\* the table of the given <<projection, ADP>> cells, one row each
MetricFile(cells, hasADP) ==
    [hasID |-> FALSE, hasADP |-> hasADP,
     rows |-> [i \in 1..Len(cells) |-> MetricRow(cells[i][1], cells[i][2])]]

\* line 261: a column with a cell that is not a number is read as text (dtype
\* object): every cell of it that is not blank is a str
read_csv(rows) ==
    LET textCols == UNION {rows[i].Str : i \in 1..Len(rows)}
    IN  [i \in 1..Len(rows) |->
            [rows[i] EXCEPT !.Str = {col \in textCols : ~isna(rows[i][col])}]]

\* The players the roster sessions are run on: four Boston players and a
\* Laker.  Al has the round games and multipliers 2, 1.1, 1, 1.0 and no finals
\* game; Bo and Ed have the same numbers in every column.
RosterPool ==
    <<[RawRow(NA, <<Al>>, <<"PG">>, <<"BOS">>, <<1>>, <<100>>, <<3>>, <<0>>, NA, NA)
          EXCEPT !.R2Games = <<2>>, !.R2Mult = <<110>>, !.R3Games = <<1>>,
                 !.R3Mult = <<100>>],
      RawRow(NA, <<Bo>>, <<"C">>,  <<"BOS">>, <<2>>, <<90>>, <<3>>,  NA,    NA,      NA),
      RawRow(NA, <<Cy>>, <<"PG">>, <<"LAL">>, <<3>>, <<90>>, <<15>>, NA,    NA,      NA),
      RawRow(NA, <<Di>>, <<"SF">>, <<"BOS">>, <<4>>, <<80>>, <<3>>,  <<4>>, <<105>>, NA),
      RawRow(NA, <<Ed>>, <<"C">>,  <<"BOS">>, <<2>>, <<90>>, <<3>>,  NA,    NA,      NA)>>

RosterRow(i) == RosterPool[((i - 1) % Len(RosterPool)) + 1]

\* the first k players; with `text` the R2Games cell of the second row is not a
\* number; with `ids` the file has an ID column that numbers the rows from the
\* last one up
RosterFile(k, text, ids) ==
    [hasID |-> ids, hasADP |-> TRUE,
     rows |-> read_csv(
        [i \in 1..k |->
            [RosterRow(i) EXCEPT
                !.ID = IF ids THEN <<k - i>> ELSE NA,
                !.R2Games = IF text /\ i = 2 THEN <<0>> ELSE @,
                !.Str = IF text /\ i = 2 THEN {"R2Games"} ELSE @]])]

RosterFiles ==
    {RosterFile(k, text, ids) :
        <<k, text, ids>> \in {x \in (1..MaxRosterRows) \X BOOLEAN \X BOOLEAN :
                                x[2] => x[1] >= 2}}

\* CSV files the admission rules are checked on: a row lacks at most one of
\* Name, Position and Team, and its projection is blank, negative, zero or
\* positive; the files have no ADP column
AdmissionGpp == {NA, <<-5>>, <<0>>, <<90>>}

AdmissionRows ==
    {RawRow(NA, c[1], c[2], c[3], NA, c[4], NA, NA, NA, NA) :
        c \in {x \in {NA, <<Al>>} \X {NA, <<"PG">>} \X {NA, <<"BOS">>} \X AdmissionGpp :
                 Cardinality({k \in 1..3 : isna(x[k])}) <= 1}}

AdmissionFiles ==
    {[hasID |-> FALSE, hasADP |-> FALSE, rows |-> rows] :
        rows \in SeqsUpTo(AdmissionRows, MaxAdmissionRows)}

----------------------------------------------------------------------------
(* Widgets *)

ViewModes == {"Available Only", "Drafted Only", "My Roster", "All Players"}

RankTiers == {"All", "1-5 (Elite)", "6-10 (Good)", "11-20 (Mid)", "21-30 (Weak)"}

\* what the user types into the search box
SearchTerms == {<<>>, <<"a">>}

\* the slider positions the sessions use (the slider runs 0.8 .. 1.4 by 0.05)
EmphasisValues == {100, 120}

\* line 366, line 370: the multiselect options
PositionOptions(rows) == {"All"} \cup {rows[i].Position : i \in 1..Len(rows)}
TeamOptions(rows) == {"All"} \cup {rows[i].Team : i \in 1..Len(rows)}
\* line 380
unique_finals(rows) == {rows[i].FinalsGames : i \in 1..Len(rows)}

\* the number of controls (view radio, filters) that are not at their default
ActiveControls(rows, view, pos, team, tier, finals, search) ==
      (IF view = "Available Only" THEN 0 ELSE 1)
    + (IF pos = {"All"} THEN 0 ELSE 1) + (IF team = {"All"} THEN 0 ELSE 1)
    + (IF tier = "All" THEN 0 ELSE 1) + (IF finals = unique_finals(rows) THEN 0 ELSE 1)
    + (IF search = <<>> THEN 0 ELSE 1)

\* str.lower() on the characters the names and search terms are made of
Lower(c) ==
    CASE c = "A" -> "a" [] c = "B" -> "b" [] c = "C" -> "c" [] OTHER -> c

\* Series.str.contains(term, case=False): term occurs in text, letters folded
Contains(text, term) ==
    \E k \in 0..(Len(text) - Len(term)) :
        \A j \in 1..Len(term) : Lower(text[k + j]) = Lower(term[j])

\* lines 428-436
InTier(teamRank, tier) ==
    CASE tier = "1-5 (Elite)"  -> teamRank <= 5
      [] tier = "6-10 (Good)"  -> teamRank >= 6 /\ teamRank <= 10
      [] tier = "11-20 (Mid)"  -> teamRank >= 11 /\ teamRank <= 20
      [] tier = "21-30 (Weak)" -> teamRank >= 21
      [] OTHER -> TRUE

\* lines 420-442 with the Finals Games mask applied unconditionally, as
\* src/app_web.py line 376 does
ApplyFilters_always_finals(rows, pos, team, tier, finals, search) ==
    LET f1 == IF "All" \notin pos /\ pos # {}
              THEN SelectSeq(rows, LAMBDA r : r.Position \in pos) ELSE rows
        f2 == IF "All" \notin team /\ team # {}
              THEN SelectSeq(f1, LAMBDA r : r.Team \in team) ELSE f1
        f3 == IF tier # "All"
              THEN SelectSeq(f2, LAMBDA r : InTier(r.TeamRank, tier)) ELSE f2
        f4 == SelectSeq(f3, LAMBDA r : r.FinalsGames \in finals)
        f5 == IF search # <<>>
              THEN SelectSeq(f4, LAMBDA r : Contains(r.Name, search)) ELSE f4
    IN  f5

\* lines 420-442: filtered_df
ApplyFilters(rows, pos, team, tier, finals, search) ==
    LET f1 == IF "All" \notin pos /\ pos # {}
              THEN SelectSeq(rows, LAMBDA r : r.Position \in pos) ELSE rows
        f2 == IF "All" \notin team /\ team # {}
              THEN SelectSeq(f1, LAMBDA r : r.Team \in team) ELSE f1
        f3 == IF tier # "All"
              THEN SelectSeq(f2, LAMBDA r : InTier(r.TeamRank, tier)) ELSE f2
        f4 == IF finals # {}
              THEN SelectSeq(f3, LAMBDA r : r.FinalsGames \in finals) ELSE f3
        f5 == IF search # <<>>
              THEN SelectSeq(f4, LAMBDA r : Contains(r.Name, search)) ELSE f4
    IN  f5

filtered_df ==
    ApplyFilters(df, position_filter, team_filter, rank_tier, finals_games_filter,
                 search_term)

\* lines 172-187: the rows the table shows; None (here the empty table) when
\* there is none
display_player_table(rows, show_drafted, show_available, show_my_roster) ==
    IF show_my_roster THEN SelectSeq(rows, LAMBDA r : r.ID \in Range(my_roster))
    ELSE IF show_drafted THEN SelectSeq(rows, LAMBDA r : r.ID \in drafted_players)
    ELSE IF show_available THEN SelectSeq(rows, LAMBDA r : r.ID \notin drafted_players)
    ELSE rows

\* lines 457-464 with every view showing what "All Players" shows
display_df_ignores_view == display_player_table(filtered_df, FALSE, FALSE, FALSE)

\* lines 457-464
display_df ==
    CASE view_mode = "Available Only" -> display_player_table(filtered_df, FALSE, TRUE, FALSE)
      [] view_mode = "Drafted Only"   -> display_player_table(filtered_df, TRUE, FALSE, FALSE)
      [] view_mode = "My Roster"      -> display_player_table(filtered_df, FALSE, TRUE, TRUE)
      [] OTHER                        -> display_player_table(filtered_df, FALSE, FALSE, FALSE)

\* line 472 without its filter: every displayed row is offered
available_players_unfiltered == display_df

\* line 472 filtering on my_roster instead of drafted_players
available_players_not_mine == SelectSeq(display_df, LAMBDA r : r.ID \notin Range(my_roster))

\* line 472
available_players == SelectSeq(display_df, LAMBDA r : r.ID \notin drafted_players)

Label(r) == <<r.Name, r.Position, r.Team>>

\* lines 473-474: the dict label -> ID; a later row with the same label
\* replaces an earlier one.  The ids the selectbox can yield.
player_options ==
    {available_players[i].ID :
        i \in {k \in 1..Len(available_players) :
                 \A j \in (k + 1)..Len(available_players) :
                    Label(available_players[j]) # Label(available_players[k])}}

----------------------------------------------------------------------------
(* On The Clock: the recommendation lists *)

\* line 501 without the isin(drafted_players) mask
available_df_unmasked == filtered_df

\* line 501
available_df == SelectSeq(filtered_df, LAMBDA r : r.ID \notin drafted_players)

\* line 506 taking the roster rows from filtered_df instead of df
my_roster_df_filtered == SelectSeq(filtered_df, LAMBDA r : r.ID \in Range(my_roster))

\* line 506
my_roster_df == SelectSeq(df, LAMBDA r : r.ID \in Range(my_roster))

\* lines 128-131 with the bonus of 10 kept for three and more
calculate_stack_score_capped(player_row, roster_rows) ==
    IF roster_rows = <<>> THEN 0
    ELSE LET team_count == Len(SelectSeq(roster_rows, LAMBDA r : r.Team = player_row.Team))
         IN    (IF team_count = 1 THEN 6 ELSE IF team_count >= 2 THEN 10 ELSE 0)
             + (IF player_row.TeamRank <= 10 THEN 3 ELSE 0)
             + (IF player_row.FinalsGames = 4 THEN 4 ELSE 0)
             + (IF player_row.FinalsMult >= 104 THEN 2 ELSE 0)

\* lines 120-155
calculate_stack_score(player_row, roster_rows) ==
    IF roster_rows = <<>> THEN 0
    ELSE LET team_count == Len(SelectSeq(roster_rows, LAMBDA r : r.Team = player_row.Team))
         IN    (IF team_count = 1 THEN 6 ELSE IF team_count = 2 THEN 10 ELSE 0)
             + (IF player_row.TeamRank <= 10 THEN 3 ELSE 0)
             + (IF player_row.FinalsGames = 4 THEN 4 ELSE 0)
             + (IF player_row.FinalsMult >= 104 THEN 2 ELSE 0)

\* the columns calculate_equity multiplies
EquityColumns == {"R2Games", "R2Mult", "R3Games", "R3Mult", "FinalsGames", "FinalsMult"}

\* lines 163-166 with the weights 1.0 and 1.35 exchanged
EquityTerms_swapped(r) ==
    <<r.R2Games * r.R2Mult * 135 + r.R3Games * r.R3Mult * 100,
      r.FinalsGames * r.FinalsMult * 175>>

\* lines 163-166, one row's terms in units of 1/10000:
\* R2Games*R2Mult*1.0 + R3Games*R3Mult*1.35 and FinalsGames*FinalsMult*1.75
EquityTerms(r) ==
    <<r.R2Games * r.R2Mult * 100 + r.R3Games * r.R3Mult * 135,
      r.FinalsGames * r.FinalsMult * 175>>

\* lines 157-170: <<advance_equity, win_equity>>; a product with a str cell
\* raises TypeError inside the try, and the except returns 0, 0
calculate_equity(roster_rows) ==
    IF roster_rows = <<>> THEN <<0, 0>>
    ELSE IF \E i \in 1..Len(roster_rows) : roster_rows[i].Str \cap EquityColumns # {}
    THEN <<0, 0>>
    ELSE <<SeqSum([i \in 1..Len(roster_rows) |-> EquityTerms(roster_rows[i])[1]]),
           SeqSum([i \in 1..Len(roster_rows) |-> EquityTerms(roster_rows[i])[2]])>>

\* lines 511-516, in tenths:
\* FinalAdjGPP*0.6 + (31-TeamRank)*10 + FinalsGames*20 + (1-ShutdownRisk)*100
SafetyScore(r) ==
    r.FinalAdjGPP * 6 + (31 - r.TeamRank) * 100 + r.FinalsGames * 200
        + (100 - r.ShutdownRisk) * 10

\* a < b on float cells, NaN ordered below every number
KeyLess(a, b) == IF a = NaN THEN b # NaN ELSE b # NaN /\ a[1] < b[1]

\* the place of a new index k in an order of indices sorted by key descending:
\* behind every index whose key is not smaller (earlier rows win ties)
RECURSIVE InsertDesc(_, _, _)
InsertDesc(order, k, keys) ==
    IF order = <<>> THEN <<k>>
    ELSE IF KeyLess(keys[Head(order)], keys[k]) THEN <<k>> \o order
    ELSE <<Head(order)>> \o InsertDesc(Tail(order), k, keys)

RECURSIVE OrderDesc(_, _)
OrderDesc(keys, k) ==
    IF k = 0 THEN <<>> ELSE InsertDesc(OrderDesc(keys, k - 1), k, keys)

\* DataFrame.nlargest(n, column).head(n): the n rows with the largest keys,
\* largest first, the first occurrence kept on ties, NaN keys last
nlargest(rows, n, keys) ==
    LET order == OrderDesc(keys, Len(rows))
    IN  [i \in 1..(IF n < Len(rows) THEN n ELSE Len(rows)) |-> rows[order[i]]]

\* lines 522-524
value_picks ==
    nlargest(available_df, 5, [i \in 1..Len(available_df) |-> available_df[i].ValueZ])

\* lines 507-509, 535-537
stack_picks ==
    nlargest(available_df, 3,
             [i \in 1..Len(available_df) |->
                <<calculate_stack_score(available_df[i], my_roster_df)>>])

\* lines 511-516, 553-555
safe_picks ==
    nlargest(available_df, 3,
             [i \in 1..Len(available_df) |-> <<SafetyScore(available_df[i])>>])

IDs(rows) == {rows[i].ID : i \in 1..Len(rows)}

----------------------------------------------------------------------------
(* The draft state and its handlers *)

DraftState == [drafted |-> drafted_players, roster |-> my_roster]

EmptyDraft == [drafted |-> {}, roster |-> <<>>]

\* lines 485-488: the body of "Draft to My Team"
DraftToMyTeam(st, player_id) ==
    [drafted |-> st.drafted \cup {player_id},
     roster  |-> Append(st.roster, player_id),
     notice  |-> "success"]

\* lines 493-495 with line 487's append copied along
MarkAsDrafted_appends(st, player_id) ==
    [drafted |-> st.drafted \cup {player_id},
     roster  |-> Append(st.roster, player_id),
     notice  |-> "info"]

\* lines 493-495: the body of "Mark as Drafted"
MarkAsDrafted(st, player_id) ==
    [drafted |-> st.drafted \cup {player_id},
     roster  |-> st.roster,
     notice  |-> "info"]

\* lines 401-403 with drafted_players rebuilt from what is left of the roster
UndoLastPick_drops_marks(st) ==
    IF st.roster # <<>>
    THEN [drafted |-> Range(SubSeq(st.roster, 1, Len(st.roster) - 1)),
          roster  |-> SubSeq(st.roster, 1, Len(st.roster) - 1)]
    ELSE st

\* lines 401-403 with the pop() left out
UndoLastPick_no_pop(st) ==
    IF st.roster # <<>>
    THEN [drafted |-> st.drafted \ {st.roster[Len(st.roster)]}, roster |-> st.roster]
    ELSE st

\* lines 401-403 with pop(0) for pop()
UndoLastPick_pop_first(st) ==
    IF st.roster # <<>>
    THEN [drafted |-> st.drafted \ {st.roster[1]}, roster |-> Tail(st.roster)]
    ELSE st

\* lines 401-403: the body of "Undo Last Pick"
UndoLastPick(st) ==
    IF st.roster # <<>>
    THEN [drafted |-> st.drafted \ {st.roster[Len(st.roster)]},
          roster  |-> SubSeq(st.roster, 1, Len(st.roster) - 1)]
    ELSE st

\* lines 396-397: the body of "Reset Draft"
ResetDraft(st) == [drafted |-> {}, roster |-> <<>>]

----------------------------------------------------------------------------
(* The session: one action per user interaction, each a whole script run   *)
(* (and the run st.rerun() starts, where the handler calls it)              *)

\* what `last` keeps of a handler: its name, the id it acted on, the notice it
\* emitted (st.success, st.info) and, for the handlers that pick, undo or
\* drop the catalog, the draft state they started from; an undo also notes
\* that it directly followed a draft
Record(op, id, notice) ==
    [op |-> op, id |-> id, notice |-> notice,
     after_draft |-> op = "undo" /\ last.op = "draft",
     before |-> IF op \in {"draft", "mark", "undo", "upload_new"}
                THEN DraftState ELSE EmptyDraft]

\* lines 37-47
Init ==
    /\ uploaded = NoFile
    /\ df = NoDF
    /\ data_loaded = FALSE
    /\ drafted_players = {}
    /\ my_roster = <<>>
    /\ finals_emphasis = 100
    /\ view_mode = "Available Only"
    /\ position_filter = {"All"}
    /\ team_filter = {"All"}
    /\ rank_tier = "All"
    /\ finals_games_filter = {}
    /\ search_term = <<>>
    /\ last = [op |-> "init", id |-> NA, notice |-> "none", after_draft |-> FALSE,
               before |-> EmptyDraft]

\* lines 354-388: the widgets as first rendered for a catalog
WidgetDefaults(rows) ==
    /\ view_mode' = "Available Only"
    /\ position_filter' = {"All"}
    /\ team_filter' = {"All"}
    /\ rank_tier' = "All"
    /\ finals_games_filter' = unique_finals(rows)
    /\ search_term' = <<>>

\* lines 321-322, run at the top of every pass over a loaded catalog
RenderPass == calculate_live_score(df, finals_emphasis)

\* lines 257-304: the file is read and processed; lines 321-322 run in the rerun
LoadFile(file) ==
    /\ \E new \in {process_data(file)} :
           IF Len(new) = 0
           THEN \* lines 294-296: st.error, nothing is stored
                UNCHANGED vars
           ELSE /\ uploaded' = file
                /\ df' = calculate_live_score(new, finals_emphasis)
                /\ data_loaded' = TRUE
                /\ WidgetDefaults(new)
                /\ last' = Record("load", NA, "success")
                /\ UNCHANGED <<drafted_players, my_roster, finals_emphasis>>

\* line 232: the uploader is shown while no catalog is stored
Load ==
    /\ df = NoDF
    /\ \E file \in DraftFiles : LoadFile(file)

\* a table without an ADP column has no ADP cell
LoadMetrics ==
    /\ df = NoDF
    /\ \E n \in 1..MaxMetricRows : \E cells \in [1..n -> GppCells \X AdpCells] :
          \E hasADP \in BOOLEAN :
              /\ hasADP \/ \A i \in 1..n : isna(cells[i][2])
              /\ LoadFile(MetricFile(cells, hasADP))

LoadRoster ==
    /\ df = NoDF
    /\ \E file \in RosterFiles : LoadFile(file)

LoadAdmission ==
    /\ df = NoDF
    /\ \E file \in AdmissionFiles : LoadFile(file)

\* lines 329-334 without lines 332-333: the picks are kept
UploadNewData_keeps_picks ==
    /\ df # NoDF
    /\ uploaded' = NoFile
    /\ df' = NoDF
    /\ data_loaded' = FALSE
    /\ view_mode' = "Available Only"
    /\ position_filter' = {"All"}
    /\ team_filter' = {"All"}
    /\ rank_tier' = "All"
    /\ finals_games_filter' = {}
    /\ search_term' = <<>>
    /\ last' = Record("upload_new", NA, "none")
    /\ UNCHANGED <<finals_emphasis, drafted_players, my_roster>>

\* lines 329-334; the rerun shows the upload page, no widget is rendered
UploadNewData ==
    /\ df # NoDF
    /\ uploaded' = NoFile
    /\ df' = NoDF
    /\ data_loaded' = FALSE
    /\ drafted_players' = {}
    /\ my_roster' = <<>>
    /\ view_mode' = "Available Only"
    /\ position_filter' = {"All"}
    /\ team_filter' = {"All"}
    /\ rank_tier' = "All"
    /\ finals_games_filter' = {}
    /\ search_term' = <<>>
    /\ last' = Record("upload_new", NA, "none")
    /\ UNCHANGED finals_emphasis

\* lines 340-348: the slider is moved; the pass computed LiveScore (line 322)
\* before it read the slider, and nothing reruns the script
SetEmphasis(e) ==
    /\ df # NoDF
    /\ e # finals_emphasis
    /\ df' = RenderPass
    /\ finals_emphasis' = e
    /\ UNCHANGED <<uploaded, data_loaded, drafted_players, my_roster, widgets, last>>

ControlBound(view, pos, team, tier, finals, search) ==
    ActiveControls(df, view, pos, team, tier, finals, search) <= MaxActiveControls

\* lines 354-358
SetViewMode(v) ==
    /\ df # NoDF
    /\ v # view_mode
    /\ ControlBound(v, position_filter, team_filter, rank_tier, finals_games_filter,
                    search_term)
    /\ view_mode' = v
    /\ df' = RenderPass
    /\ UNCHANGED <<uploaded, data_loaded, drafted_players, my_roster, finals_emphasis,
                   position_filter, team_filter, rank_tier, finals_games_filter,
                   search_term, last>>

\* lines 366-367
SetPositionFilter(sel) ==
    /\ df # NoDF
    /\ sel # position_filter
    /\ ControlBound(view_mode, sel, team_filter, rank_tier, finals_games_filter, search_term)
    /\ position_filter' = sel
    /\ df' = RenderPass
    /\ UNCHANGED <<uploaded, data_loaded, drafted_players, my_roster, finals_emphasis,
                   view_mode, team_filter, rank_tier, finals_games_filter, search_term,
                   last>>

\* lines 370-371
SetTeamFilter(sel) ==
    /\ df # NoDF
    /\ sel # team_filter
    /\ ControlBound(view_mode, position_filter, sel, rank_tier, finals_games_filter, search_term)
    /\ team_filter' = sel
    /\ df' = RenderPass
    /\ UNCHANGED <<uploaded, data_loaded, drafted_players, my_roster, finals_emphasis,
                   view_mode, position_filter, rank_tier, finals_games_filter,
                   search_term, last>>

\* lines 374-377
SetRankTier(tier) ==
    /\ df # NoDF
    /\ tier # rank_tier
    /\ ControlBound(view_mode, position_filter, team_filter, tier, finals_games_filter, search_term)
    /\ rank_tier' = tier
    /\ df' = RenderPass
    /\ UNCHANGED <<uploaded, data_loaded, drafted_players, my_roster, finals_emphasis,
                   view_mode, position_filter, team_filter, finals_games_filter,
                   search_term, last>>

\* lines 380-385
SetFinalsGamesFilter(sel) ==
    /\ df # NoDF
    /\ sel # finals_games_filter
    /\ ControlBound(view_mode, position_filter, team_filter, rank_tier, sel, search_term)
    /\ finals_games_filter' = sel
    /\ df' = RenderPass
    /\ UNCHANGED <<uploaded, data_loaded, drafted_players, my_roster, finals_emphasis,
                   view_mode, position_filter, team_filter, rank_tier, search_term,
                   last>>

\* line 388
SetSearchTerm(term) ==
    /\ df # NoDF
    /\ term # search_term
    /\ ControlBound(view_mode, position_filter, team_filter, rank_tier, finals_games_filter, term)
    /\ search_term' = term
    /\ df' = RenderPass
    /\ UNCHANGED <<uploaded, data_loaded, drafted_players, my_roster, finals_emphasis,
                   view_mode, position_filter, team_filter, rank_tier,
                   finals_games_filter, last>>

\* lines 477-481: another player is picked in the selectbox (a pass that
\* changes no session state but line 322's)
SelectPlayer ==
    /\ df # NoDF
    /\ player_options # {}
    /\ df' = RenderPass
    /\ UNCHANGED <<uploaded, data_loaded, drafted_players, my_roster, finals_emphasis,
                   widgets, last>>

\* lines 395-398
Reset ==
    /\ df # NoDF
    /\ drafted_players' = ResetDraft(DraftState).drafted
    /\ my_roster' = ResetDraft(DraftState).roster
    /\ df' = RenderPass
    /\ last' = Record("reset", NA, "none")
    /\ UNCHANGED <<uploaded, data_loaded, finals_emphasis, widgets>>

\* lines 400-404
Undo ==
    /\ df # NoDF
    /\ drafted_players' = UndoLastPick(DraftState).drafted
    /\ my_roster' = UndoLastPick(DraftState).roster
    /\ df' = RenderPass
    /\ last' = Record("undo",
                      IF my_roster # <<>> THEN <<my_roster[Len(my_roster)]>> ELSE NA,
                      "none")
    /\ UNCHANGED <<uploaded, data_loaded, finals_emphasis, widgets>>

\* lines 484-489: the selected option's id is drafted
Draft(player_id) ==
    /\ df # NoDF
    /\ player_id \in player_options
    /\ drafted_players' = DraftToMyTeam(DraftState, player_id).drafted
    /\ my_roster' = DraftToMyTeam(DraftState, player_id).roster
    /\ df' = RenderPass
    /\ last' = Record("draft", <<player_id>>, DraftToMyTeam(DraftState, player_id).notice)
    /\ UNCHANGED <<uploaded, data_loaded, finals_emphasis, widgets>>

\* lines 492-496
MarkDrafted(player_id) ==
    /\ df # NoDF
    /\ player_id \in player_options
    /\ drafted_players' = MarkAsDrafted(DraftState, player_id).drafted
    /\ my_roster' = MarkAsDrafted(DraftState, player_id).roster
    /\ df' = RenderPass
    /\ last' = Record("mark", <<player_id>>, MarkAsDrafted(DraftState, player_id).notice)
    /\ UNCHANGED <<uploaded, data_loaded, finals_emphasis, widgets>>

\* the selections a multiselect over `options` is driven to: nothing, one
\* option, or every option
Selections(options) ==
    {sel \in SUBSET options : Cardinality(sel) <= 1 \/ sel = options}

Next ==
    \/ Load
    \/ UploadNewData
    \/ \E e \in EmphasisValues : SetEmphasis(e)
    \/ \E v \in ViewModes : SetViewMode(v)
    \/ \E sel \in Selections(PositionOptions(df)) : SetPositionFilter(sel)
    \/ \E sel \in Selections(TeamOptions(df)) : SetTeamFilter(sel)
    \/ \E tier \in RankTiers : SetRankTier(tier)
    \/ \E sel \in Selections(unique_finals(df)) : SetFinalsGamesFilter(sel)
    \/ \E term \in SearchTerms : SetSearchTerm(term)
    \/ SelectPlayer
    \/ Reset
    \/ Undo
    \/ \E player_id \in IDs(df) : Draft(player_id)
    \/ \E player_id \in IDs(df) : MarkDrafted(player_id)

Spec == Init /\ [][Next]_vars

\* the metric pipeline on every table of MetricFiles
NextMetrics == LoadMetrics

SpecMetrics == Init /\ [][NextMetrics]_vars

\* the roster sessions: a load, then picks and undos
NextRoster ==
    \/ LoadRoster
    \/ Undo
    \/ \E player_id \in IDs(df) : Draft(player_id)

SpecRoster == Init /\ [][NextRoster]_vars

\* the loads that exercise the admission rules
NextAdmission == LoadAdmission

SpecAdmission == Init /\ [][NextAdmission]_vars

----------------------------------------------------------------------------
(* Properties *)

Loaded == df # NoDF

\* the three predicates of a player id (available / opponent_drafted / mine)
StateOf(st, id) ==
    IF id \in Range(st.roster) THEN "mine"
    ELSE IF id \in st.drafted THEN "opponent_drafted"
    ELSE "available"

\* the draft state after the step
DraftStateNext == [drafted |-> drafted_players', roster |-> my_roster']

\* the step ran "Draft to My Team" / "Mark as Drafted"
DraftStep == last' # last /\ last'.op = "draft"
MarkStep == last' # last /\ last'.op = "mark"

\* C1: in every reachable state every id of my_roster is in drafted_players.
C1_RosterSubsetOfDrafted == Range(my_roster) \subseteq drafted_players

\* an undo has just removed a pick, leaving own picks and opponent picks behind
C1_Witness ==
    /\ last.op = "undo" /\ last.id # NA
    /\ my_roster # <<>>
    /\ drafted_players \ Range(my_roster) # {}

C3_Step ==
    /\ (last'.op = "undo" /\ my_roster = <<>>) =>
            (drafted_players' = drafted_players /\ my_roster' = my_roster)
    /\ (last.op = "draft" /\ last'.op = "undo") =>
            (drafted_players' = last.before.drafted /\ my_roster' = last.before.roster)

C3_UndoInvertsDraft == [][C3_Step]_vars

\* draft(X) then undo, from a state with earlier picks of both kinds
C3_Witness ==
    /\ last.op = "undo" /\ last.after_draft /\ last.id # NA
    /\ my_roster # <<>>
    /\ drafted_players \ Range(my_roster) # {}

\* C4: my_roster never holds an id twice.
C4_RosterHasNoDuplicates == NoDuplicates(my_roster)

\* two own picks, the second made while drafted rows were on display
C4_Witness ==
    /\ Len(my_roster) >= 2
    /\ last.op = "draft"
    /\ view_mode = "All Players"

PickedIDs == IDs(value_picks) \cup IDs(stack_picks) \cup IDs(safe_picks)

\* C5: no recommendation list (value, stack, safety) holds a drafted id,
\* whatever the filters and the view.
C5_PicksAreAvailable == Loaded => PickedIDs \cap drafted_players = {}

\* own and opponent picks exist, a filter is set and the lists are not empty
C5_Witness ==
    /\ Loaded
    /\ my_roster # <<>>
    /\ drafted_players \ Range(my_roster) # {}
    /\ rank_tier # "All"
    /\ value_picks # <<>> /\ stack_picks # <<>> /\ safe_picks # <<>>

\* C6: draft(id) takes an available id to "mine", appended last to my_roster;
\* mark_drafted(id) takes an available id to "opponent_drafted" and leaves
\* my_roster alone; the predicate of every other id stays what it was.
C6_Step ==
    LET id == last'.id[1]
        others == \A other \in IDs(df) \ {id} :
                     StateOf(DraftStateNext, other) = StateOf(DraftState, other)
    IN  /\ DraftStep =>
            /\ StateOf(DraftState, id) = "available"
            /\ StateOf(DraftStateNext, id) = "mine"
            /\ drafted_players' = drafted_players \cup {id}
            /\ my_roster' = my_roster \o <<id>>
            /\ others
        /\ MarkStep =>
            /\ StateOf(DraftState, id) = "available"
            /\ StateOf(DraftStateNext, id) = "opponent_drafted"
            /\ drafted_players' = drafted_players \cup {id}
            /\ my_roster' = my_roster
            /\ others

C6_DraftAndMarkEffects == [][C6_Step]_vars

\* an opponent pick marked after an own pick
C6_Witness ==
    /\ last.op = "mark"
    /\ last.before.roster # <<>>
    /\ my_roster = last.before.roster

\* C7 as stated: after every pass every row's LiveScore is FinalAdjGPP times
\* the finals_emphasis the session holds at the end of the pass.
C7_LiveScoreCurrent ==
    Loaded => \A i \in 1..Len(df) : df[i].LiveScore = <<df[i].FinalAdjGPP * finals_emphasis>>

\* the columns a pass may not touch
FrozenColumns == DOMAIN required_cols \cup
    {"ID", "Name", "Position", "Team", "FinalAdjGPP_Rank", "ADP_Rank", "ValueScore",
     "zFinal", "zADP", "ValueZ", "ValueAlert"}

\* C8: a pass that only follows a finals_emphasis change rewrites LiveScore and
\* nothing else: the ranks, ValueScore (still ADP_Rank - FinalAdjGPP_Rank),
\* ValueZ, ValueAlert and every input column keep their values, and so do
\* drafted_players and my_roster.
C8_Step ==
    /\ (Loaded /\ df' # NoDF) =>
            /\ Len(df') = Len(df)
            /\ \A i \in 1..Len(df) :
                  /\ \A col \in FrozenColumns : df'[i][col] = df[i][col]
                  /\ df'[i].ValueScore = df'[i].ADP_Rank - df'[i].FinalAdjGPP_Rank
    /\ finals_emphasis' # finals_emphasis =>
            (drafted_players' = drafted_players /\ my_roster' = my_roster)

C8_EmphasisTouchesLiveScoreOnly == [][C8_Step]_vars

\* the emphasis was moved off 1.0 with picks made, and a pass has rescaled LiveScore
C8_Witness ==
    /\ Loaded
    /\ finals_emphasis = 120
    /\ drafted_players # {}
    /\ \A i \in 1..Len(df) : df[i].LiveScore = <<df[i].FinalAdjGPP * 120>>

\* C9: FinalAdjGPP_Rank is 1 + the number of rows with a strictly greater
\* FinalAdjGPP, ADP_Rank is 1 + the number of rows with a strictly smaller ADP;
\* so ranks are positive, the best projection has rank 1 and equal values share
\* a rank; A(100,5), B(90,1), C(90,2) get ranks 1,2,2 and 3,1,2 and value
\* scores 2,-1,0.
C9_MinRanks ==
    Loaded =>
        /\ \A i \in 1..Len(df) :
              /\ df[i].FinalAdjGPP_Rank =
                    1 + Cardinality({j \in 1..Len(df) : df[j].FinalAdjGPP > df[i].FinalAdjGPP})
              /\ df[i].ADP_Rank =
                    1 + Cardinality({j \in 1..Len(df) : df[j].ADP < df[i].ADP})
              /\ df[i].FinalAdjGPP_Rank >= 1 /\ df[i].ADP_Rank >= 1
              /\ (\A j \in 1..Len(df) : df[j].FinalAdjGPP <= df[i].FinalAdjGPP)
                    => df[i].FinalAdjGPP_Rank = 1
              /\ \A j \in 1..Len(df) :
                    df[j].FinalAdjGPP = df[i].FinalAdjGPP
                        => df[j].FinalAdjGPP_Rank = df[i].FinalAdjGPP_Rank
        /\ (Column(df, "FinalAdjGPP") = <<100, 90, 90>> /\ Column(df, "ADP") = <<5, 1, 2>>)
              => /\ Column(df, "FinalAdjGPP_Rank") = <<1, 2, 2>>
                 /\ Column(df, "ADP_Rank") = <<3, 1, 2>>
                 /\ Column(df, "ValueScore") = <<2, -1, 0>>

\* the catalog of the end-to-end scenario is loaded
C9_Witness ==
    /\ Loaded
    /\ Column(df, "FinalAdjGPP") = <<100, 90, 90>>
    /\ Column(df, "ADP") = <<5, 1, 2>>

\* the ADP cells the uploaded table has a value in
ObservedADP == {uploaded.rows[k].ADP[1] : k \in {j \in 1..Len(uploaded.rows) :
                                                    ~isna(uploaded.rows[j].ADP)}}

\* C10 as stated: a missing ADP becomes max(observed ADP) + 100 when some ADP
\* is observed and 999 when none is.  (Without an ID column a row's ID is its
\* 0-based place in the uploaded table.)
C10_MissingADPFill ==
    Loaded =>
        \A i \in 1..Len(df) :
            isna(uploaded.rows[df[i].ID + 1].ADP) =>
                df[i].ADP = (IF ObservedADP # {} THEN SetMax(ObservedADP) + 100 ELSE 999)

\* every row holds the same value in the column
ConstantColumn(rows, col) == \A i, j \in 1..Len(rows) : rows[i][col] = rows[j][col]

\* C11 as stated: when FinalAdjGPP or ADP has zero variance over the catalog
\* (a one-row catalog included) every row's ValueZ is exactly 0, never NaN,
\* and ValueAlert is ValueScore >= 12.
C11_ZeroVarianceValueZ ==
    (Loaded /\ (ConstantColumn(df, "FinalAdjGPP") \/ ConstantColumn(df, "ADP"))) =>
        \A i \in 1..Len(df) :
            /\ df[i].ValueZ = <<0>>
            /\ df[i].ValueAlert = (df[i].ValueScore >= 12)

\* the columns of an uploaded table
RawColumns ==
    {"ID", "Name", "Position", "Team", "ADP", "FinalAdjGPP", "TeamRank", "R2Games",
     "R3Games", "FinalsGames", "R2Mult", "R3Mult", "FinalsMult", "ShutdownRisk"}

\* a processed table handed to process_data again: it has an ID and an ADP
\* column and no missing cell; the derived columns it carries are assigned anew
AsInput(rows) ==
    [hasID |-> TRUE, hasADP |-> TRUE,
     rows |-> [i \in 1..Len(rows) |->
                 [col \in RawColumns \cup {"Str"} |->
                     IF col = "Str" THEN rows[i].Str ELSE <<rows[i][col]>>]]]

\* C12: process_data applied to its own output returns the same rows: the same
\* ids in the same order and the same ADP, FinalAdjGPP_Rank, ADP_Rank,
\* ValueScore, ValueZ and ValueAlert.
C12_ProcessDataIdempotent ==
    Loaded =>
        LET again == process_data(AsInput(df))
        IN  /\ Len(again) = Len(df)
            /\ \A i \in 1..Len(df) :
                  \A col \in {"ID", "ADP", "FinalAdjGPP_Rank", "ADP_Rank", "ValueScore",
                              "ValueZ", "ValueAlert"} :
                     again[i][col] = df[i][col]

\* the first pass rejected a row ahead of a kept one, filled a missing ADP and
\* computed z-scores
C12_Witness ==
    /\ Loaded
    /\ Len(df) >= 2
    /\ \E i \in 1..Len(df) : df[i].ID # i - 1
    /\ \E i \in 1..Len(df) : isna(uploaded.rows[df[i].ID + 1].ADP)
    /\ \A i \in 1..Len(df) : df[i].ValueZ # NaN

\* C13 as stated: after a load the ids of the catalog rows are pairwise
\* distinct and form a contiguous integer range, also when rows were rejected.
C13_IdsDenseUnique ==
    Loaded =>
        /\ Cardinality(IDs(df)) = Len(df)
        /\ \A a, b \in IDs(df) : \A k \in a..b : k \in IDs(df)

\* the admission rule for a row of the uploaded table
Admitted(r) ==
    /\ ~isna(r.Name) /\ ~isna(r.Position) /\ ~isna(r.Team)
    /\ ~isna(r.FinalAdjGPP) /\ r.FinalAdjGPP[1] > 0

\* C14: after a successful load the catalog holds exactly the admitted rows of
\* the uploaded table (Name, Position, Team and FinalAdjGPP present and
\* FinalAdjGPP > 0), in the table's order; every catalog row has its Name,
\* Position and Team and a positive FinalAdjGPP.  (The files have no ID
\* column: a row's ID is its 0-based place in the uploaded table.)
C14_AdmissionPolicy ==
    Loaded =>
        /\ IDs(df) = {k - 1 : k \in {j \in 1..Len(uploaded.rows) : Admitted(uploaded.rows[j])}}
        /\ \A i, j \in 1..Len(df) : i < j => df[i].ID < df[j].ID
        /\ \A i \in 1..Len(df) :
              LET r == uploaded.rows[df[i].ID + 1]
              IN  /\ df[i].Name = r.Name[1] /\ df[i].Position = r.Position[1]
                  /\ df[i].Team = r.Team[1]
                  /\ df[i].FinalAdjGPP = r.FinalAdjGPP[1] /\ df[i].FinalAdjGPP > 0

\* a load that kept one row and dropped one for a missing Name and one for a
\* projection of 0
C14_Witness ==
    /\ Loaded
    /\ Len(df) = 1
    /\ \E j \in 1..Len(uploaded.rows) : isna(uploaded.rows[j].Name)
    /\ \E j \in 1..Len(uploaded.rows) : uploaded.rows[j].FinalAdjGPP = <<0>>

\* the catalog rows of the given ids (line 506 for a roster other than my_roster)
RosterRows(ids) == SelectSeq(df, LAMBDA r : r.ID \in Range(ids))

\* the roster players on the candidate's team
SameTeam(c, ids) == Len(SelectSeq(RosterRows(ids), LAMBDA r : r.Team = c.Team))

\* the roster before its last pick
Earlier(ids) == SubSeq(ids, 1, Len(ids) - 1)

\* the part of the stack score that does not depend on the roster
QualityBonus(c) ==
      (IF c.TeamRank <= 10 THEN 3 ELSE 0) + (IF c.FinalsGames = 4 THEN 4 ELSE 0)
    + (IF c.FinalsMult >= 104 THEN 2 ELSE 0)

\* C15 as stated: the stack score is 0 against an empty roster; against a
\* non-empty roster the same-team bonus is 6 at one and 10 at two same-team
\* roster players, and a candidate's score does not fall when one more roster
\* player shares its team (one to two, two to three).
C15_StackScoreMonotone ==
    Loaded =>
        \A i \in 1..Len(available_df) :
            LET c == available_df[i]
            IN  /\ my_roster = <<>> => calculate_stack_score(c, my_roster_df) = 0
                /\ SameTeam(c, my_roster) = 1 =>
                      calculate_stack_score(c, my_roster_df) = QualityBonus(c) + 6
                /\ SameTeam(c, my_roster) = 2 =>
                      calculate_stack_score(c, my_roster_df) = QualityBonus(c) + 10
                /\ (SameTeam(c, my_roster) > SameTeam(c, Earlier(my_roster))
                        /\ SameTeam(c, Earlier(my_roster)) >= 1) =>
                      calculate_stack_score(c, my_roster_df)
                          >= calculate_stack_score(c, RosterRows(Earlier(my_roster)))

\* C15 amended: the stack score is 0 against an empty roster; against a
\* non-empty roster the same-team bonus is 6 at exactly one and 10 at exactly
\* two same-team roster players and 0 at none and at three or more, so the
\* score rises by 4 from one to two and falls by 10 from two to three.
C15_StackBonusEndsAtThree ==
    Loaded =>
        \A i \in 1..Len(available_df) :
            LET c == available_df[i]
                k == SameTeam(c, my_roster)
            IN  calculate_stack_score(c, my_roster_df) =
                    IF my_roster = <<>> THEN 0
                    ELSE QualityBonus(c) + (CASE k = 1 -> 6 [] k = 2 -> 10 [] OTHER -> 0)

\* a candidate is on the clock with three of its team on the roster
C15_Witness ==
    /\ Loaded
    /\ \E i \in 1..Len(available_df) : SameTeam(available_df[i], my_roster) = 3

\* the catalog row of an id
RowOf(id) == df[CHOOSE i \in 1..Len(df) : df[i].ID = id]

\* no cell of the equity columns is text
NumericEquityColumns == \A i \in 1..Len(df) : df[i].Str \cap EquityColumns = {}

\* a player's contribution as the claim writes it, in units of 1/10000
PlayerTerm(r) ==
    <<r.R2Games * r.R2Mult * 100 + r.R3Games * r.R3Mult * 135,
      r.FinalsGames * r.FinalsMult * 175>>

\* the roster summary (lines 410-412) before and after the step
EquityNow == calculate_equity(my_roster_df)
EquityNext == calculate_equity(SelectSeq(df', LAMBDA r : r.ID \in Range(my_roster')))

\* C16: with numeric round columns, the equity of an empty roster is (0, 0); a
\* draft raises advance_equity and win_equity by exactly the drafted player's
\* terms (3.55 advance for R2Games=2, R2Mult=1.1, R3Games=1, R3Mult=1.0), an
\* undo lowers them by the removed player's terms, and an undo that directly
\* follows a draft gives back the values from before that draft.
C16_Step ==
    (Loaded /\ NumericEquityColumns) =>
        /\ my_roster = <<>> => EquityNow = <<0, 0>>
        /\ DraftStep =>
              LET r == RowOf(last'.id[1])
              IN  /\ EquityNext[1] = EquityNow[1] + PlayerTerm(r)[1]
                  /\ EquityNext[2] = EquityNow[2] + PlayerTerm(r)[2]
                  /\ (r.R2Games = 2 /\ r.R2Mult = 110 /\ r.R3Games = 1 /\ r.R3Mult = 100)
                        => EquityNext[1] - EquityNow[1] = 35500
        /\ (last' # last /\ last'.op = "undo" /\ my_roster # <<>>) =>
              LET r == RowOf(my_roster[Len(my_roster)])
              IN  /\ EquityNext[1] = EquityNow[1] - PlayerTerm(r)[1]
                  /\ EquityNext[2] = EquityNow[2] - PlayerTerm(r)[2]
        /\ (last.op = "draft" /\ last' # last /\ last'.op = "undo") =>
              EquityNext = calculate_equity(RosterRows(last.before.roster))

C16_EquityIsSumOfTerms == [][C16_Step]_vars

\* the 3.55 player was drafted onto a non-empty roster and the pick was undone
C16_Witness ==
    /\ Loaded /\ NumericEquityColumns
    /\ last.op = "undo" /\ last.after_draft /\ last.id # NA
    /\ RowOf(last.id[1]).R2Games = 2 /\ RowOf(last.id[1]).R2Mult = 110
    /\ my_roster # <<>>
    /\ EquityNow[1] > 0 /\ EquityNow[2] > 0

\* a roster row with its text cells replaced by the column defaults
WithDefaults(r) ==
    [col \in DOMAIN r |->
        IF col \in EquityColumns /\ col \in r.Str THEN required_cols[col] ELSE r[col]]

\* C17 as stated: when a roster player has a cell of the equity columns that
\* is not a number, both scalars are computed with that cell replaced by the
\* column default (3 for games, 1.0 for multipliers), the other roster
\* players' terms included.
C17_MalformedUsesDefault ==
    (Loaded /\ \E i \in 1..Len(my_roster_df) : my_roster_df[i].Str \cap EquityColumns # {}) =>
        /\ EquityNow[1] = SeqSum([i \in 1..Len(my_roster_df) |->
                                    PlayerTerm(WithDefaults(my_roster_df[i]))[1]])
        /\ EquityNow[2] = SeqSum([i \in 1..Len(my_roster_df) |->
                                    PlayerTerm(WithDefaults(my_roster_df[i]))[2]])

\* C18 as stated: the value picks are the first min(5, n) of the n available
\* filtered players in the order ValueZ descending, equal ValueZ by lower
\* ADP_Rank first.  (Stated for catalogs whose ValueZ are numbers.)
C18_ValuePicksOrder ==
    (Loaded /\ \A i \in 1..Len(df) : df[i].ValueZ # NaN) =>
        /\ Len(value_picks) = IF Len(available_df) < 5 THEN Len(available_df) ELSE 5
        /\ \A i \in 1..(Len(value_picks) - 1) :
              \/ value_picks[i].ValueZ[1] > value_picks[i + 1].ValueZ[1]
              \/ /\ value_picks[i].ValueZ = value_picks[i + 1].ValueZ
                 /\ value_picks[i].ADP_Rank <= value_picks[i + 1].ADP_Rank

\* the keys the two lists are cut by (lines 507-516)
StackScore(r) == calculate_stack_score(r, my_roster_df)

\* C19 as stated: the stack picks and the safety picks are in descending score
\* order with equal scores in ascending ID order.
C19_TiesByIdAscending ==
    Loaded =>
        /\ \A i \in 1..(Len(stack_picks) - 1) :
              \/ StackScore(stack_picks[i]) > StackScore(stack_picks[i + 1])
              \/ /\ StackScore(stack_picks[i]) = StackScore(stack_picks[i + 1])
                 /\ stack_picks[i].ID < stack_picks[i + 1].ID
        /\ \A i \in 1..(Len(safe_picks) - 1) :
              \/ SafetyScore(safe_picks[i]) > SafetyScore(safe_picks[i + 1])
              \/ /\ SafetyScore(safe_picks[i]) = SafetyScore(safe_picks[i + 1])
                 /\ safe_picks[i].ID < safe_picks[i + 1].ID

\* a filter that is absent (an empty selection, "All", an empty search string)
\* passes every row; one that is present passes the rows it names
PassesPosition(r) ==
    position_filter = {} \/ "All" \in position_filter \/ r.Position \in position_filter
PassesTeam(r) == team_filter = {} \/ "All" \in team_filter \/ r.Team \in team_filter
PassesTier(r) == rank_tier = "All" \/ InTier(r.TeamRank, rank_tier)
PassesFinals(r) == finals_games_filter = {} \/ r.FinalsGames \in finals_games_filter
PassesSearch(r) == search_term = <<>> \/ Contains(r.Name, search_term)

\* C20: every filter is optional: the filtered set is the catalog rows that
\* pass each filter, where an empty position, team or finals-games selection,
\* the rank tier "All" and an empty search string pass every row; with every
\* filter absent the filtered set is the whole catalog.
C20_AbsentFilterMatchesAll ==
    Loaded =>
        /\ filtered_df =
              SelectSeq(df, LAMBDA r : /\ PassesPosition(r) /\ PassesTeam(r) /\ PassesTier(r)
                                       /\ PassesFinals(r) /\ PassesSearch(r))
        /\ (position_filter = {} /\ team_filter \in {{}, {"All"}} /\ rank_tier = "All"
                /\ finals_games_filter = {} /\ search_term = <<>>) => filtered_df = df

\* the Finals Games selection was emptied on a catalog of several players
C20_Witness ==
    /\ Loaded
    /\ Len(df) >= 2
    /\ finals_games_filter = {}
    /\ filtered_df = df

\* the ids drafted by opponents: drafted, not on the roster
OpponentPicks(st) == st.drafted \ Range(st.roster)

\* the step ran "Undo Last Pick"
UndoStep == last' # last /\ last'.op = "undo"

\* C21: an undo on a non-empty roster removes the last roster id, and only
\* it, from my_roster and from drafted_players and leaves the catalog, the
\* emphasis and the widgets alone; the opponent picks are the same set before
\* and after an undo and after a draft, and a mark only adds to them, so undos
\* never free an opponent pick and an emptied roster leaves drafted_players
\* equal to the opponent picks.
C21_Step ==
    /\ (UndoStep /\ my_roster # <<>>) =>
          /\ my_roster' = Earlier(my_roster)
          /\ drafted_players' = drafted_players \ {my_roster[Len(my_roster)]}
          /\ my_roster[Len(my_roster)] \notin OpponentPicks(DraftState)
          /\ OpponentPicks(DraftStateNext) = OpponentPicks(DraftState)
          /\ my_roster' = <<>> => drafted_players' = OpponentPicks(DraftState)
          /\ IDs(df') = IDs(df)
          /\ UNCHANGED <<uploaded, data_loaded, finals_emphasis, widgets>>
    /\ DraftStep => OpponentPicks(DraftStateNext) = OpponentPicks(DraftState)
    /\ MarkStep => OpponentPicks(DraftState) \subseteq OpponentPicks(DraftStateNext)

C21_UndoRemovesOnlyLastPick == [][C21_Step]_vars

\* an own pick, then two opponent picks, then the undo: the roster is empty
\* and both opponent picks are still drafted
C21_Witness ==
    /\ last.op = "undo" /\ last.id # NA /\ ~last.after_draft
    /\ Len(last.before.roster) = 1
    /\ my_roster = <<>>
    /\ Cardinality(drafted_players) = 2
    /\ Len(df) = 3

\* every pick names a row of the stored catalog; without a catalog there is
\* no pick
PicksAreOfCatalog ==
    /\ drafted_players \subseteq IDs(df)
    /\ Range(my_roster) \subseteq IDs(df)
    /\ df = NoDF => (drafted_players = {} /\ my_roster = <<>>)

\* C22: in every state the ids in drafted_players and my_roster are ids of
\* rows of the stored catalog, and both are empty while none is stored; the
\* stored table changes only by a load into a session without a catalog and
\* without picks, or by "Upload New Data", which clears the catalog and both
\* collections in the same step.
C22_Step ==
    /\ PicksAreOfCatalog /\ PicksAreOfCatalog'
    /\ uploaded' # uploaded =>
          \/ /\ last'.op = "load" /\ df = NoDF /\ df' # NoDF
             /\ drafted_players = {} /\ my_roster = <<>>
             /\ drafted_players' = {} /\ my_roster' = <<>>
          \/ /\ last'.op = "upload_new" /\ df' = NoDF
             /\ drafted_players' = {} /\ my_roster' = <<>>
    /\ IDs(df') # IDs(df) => uploaded' # uploaded

C22_PicksBelongToCatalog == [][C22_Step]_vars

\* "Upload New Data" was pressed with own and opponent picks made
C22_Witness ==
    /\ last.op = "upload_new"
    /\ last.before.roster # <<>>
    /\ OpponentPicks(last.before) # {}
    /\ df = NoDF
    /\ drafted_players = {} /\ my_roster = <<>>

\* C23: a draft or a mark acts only on an id that is not drafted, is in the
\* filtered set and is in the table the view shows, so none happens under the
\* "Drafted Only" and "My Roster" views or when no available player passes the
\* filters (no option is offered then); "Undo Last Pick" and "Reset Draft" can
\* be pressed in every state with a catalog.
C23_Step ==
    (DraftStep \/ MarkStep) =>
        /\ last'.id[1] \notin drafted_players
        /\ last'.id[1] \in IDs(filtered_df)
        /\ last'.id[1] \in IDs(display_df)
        /\ view_mode \notin {"Drafted Only", "My Roster"}
        /\ available_df # <<>>

C23_Buttons ==
    Loaded =>
        /\ (view_mode \in {"Drafted Only", "My Roster"} \/ available_df = <<>>) =>
              /\ player_options = {}
              /\ \A id \in IDs(df) : ~ENABLED Draft(id) /\ ~ENABLED MarkDrafted(id)
        /\ ENABLED Undo /\ ENABLED Reset

C23_PicksOnlyFromShownAvailable == []C23_Buttons /\ [][C23_Step]_vars

\* an undo was pressed under the "My Roster" view, with a pick still on the
\* roster and undrafted players in the catalog
C23_Witness ==
    /\ Loaded
    /\ view_mode = "My Roster"
    /\ last.op = "undo" /\ last.id # NA
    /\ my_roster # <<>>
    /\ IDs(df) \ drafted_players # {}

\* the stack score of every catalog row against the roster (lines 507-509
\* compute it for the available ones)
StackScores == [i \in 1..Len(df) |-> calculate_stack_score(df[i], my_roster_df)]

\* C24: the roster rows behind the equity scalars and the stack scores are
\* taken from the whole catalog: a pass that changes the view or a filter and
\* leaves drafted_players and my_roster as they are changes neither
\* advance_equity, win_equity nor any player's stack score.
C24_Step ==
    (widgets' # widgets /\ Loaded /\ df' # NoDF
        /\ drafted_players' = drafted_players /\ my_roster' = my_roster) =>
        /\ calculate_equity(my_roster_df') = EquityNow
        /\ [i \in 1..Len(df') |-> calculate_stack_score(df'[i], my_roster_df')] = StackScores

\* the equity pair is the sum of the terms of every roster player
C24_EquityOfWholeRoster ==
    Loaded =>
        EquityNow = <<SeqSum([i \in 1..Len(my_roster) |-> PlayerTerm(RowOf(my_roster[i]))[1]]),
                      SeqSum([i \in 1..Len(my_roster) |-> PlayerTerm(RowOf(my_roster[i]))[2]])>>

C24_RosterMetricsIgnoreFilters == []C24_EquityOfWholeRoster /\ [][C24_Step]_vars

\* a filter hides every roster player while a team-mate of one of them is
\* still available and shown
C24_Witness ==
    /\ Loaded
    /\ my_roster # <<>>
    /\ Range(my_roster) \cap IDs(filtered_df) = {}
    /\ \E i \in 1..Len(available_df) : SameTeam(available_df[i], my_roster) >= 1

====
